---- MODULE Spec2Model ----
(***************************************************************************)
(* BpWordzee: the word search client (front/index.js, class                *)
(* BpWordzeeClient) as a state machine.  One search walks                  *)
(*   inicio -> validado -> esperando -> leyendo -> procesando -> resuelto  *)
(* and may leave the walk at any step as "rechazado" (the promise of       *)
(* buscarPalabras rejects with the error held in `error`).                 *)
(*                                                                         *)
(* The service worker (sw.js) stands between the page and the network:     *)
(* its versions install and activate one after the other, and the fetch    *)
(* handler of the active version answers the requests of the page.         *)
(***************************************************************************)
EXTENDS Integers, Sequences, FiniteSets, TLC

VARIABLES
    pc,                 \* position of the search inside buscarPalabras
    letrasDisponibles,  \* 1st argument of buscarPalabras
    puntosExtra,        \* 2nd argument of buscarPalabras
    ronda,              \* 3rd argument of buscarPalabras
    peticiones,         \* requests handed to fetch() so far, oldest first
    respuesta,          \* what fetch() / response.json() produced
    palabras,           \* argument of procesarPalabras ({WORD: puntos} items)
    resultado,          \* value the search resolved with
    anterior,           \* result of the previous pass when a result is re-ranked
    pasada,             \* number of procesarPalabras calls made on this data
    error,              \* error the search rejected with
    sw,                 \* sw.js: per version, its life cycle and its sweep
    almacenes,          \* CacheStorage: the cache stores, in creation order
    solicitudes,        \* fetch events handled so far, oldest first
    ultimoMensaje       \* the last message event sw.js handled

\* the state of the service worker
varsSW == <<sw, almacenes, solicitudes, ultimoMensaje>>

\* the variables of the search: sw.js leaves them alone
varsBusqueda == <<pc, letrasDisponibles, puntosExtra, ronda, peticiones, respuesta,
                  palabras, resultado, anterior, pasada, error>>

vars == <<pc, letrasDisponibles, puntosExtra, ronda, peticiones, respuesta,
          palabras, resultado, anterior, pasada, error, sw, almacenes, solicitudes,
          ultimoMensaje>>

-----------------------------------------------------------------------------
(* Bounds of the model.                                                    *)

\* longest candidate list enumerated exhaustively over Items
MaxCortas == 3
\* longest single-length run of candidates (must exceed the top-10 cut)
MaxLote == 15
\* longest list of candidates a response of the word source carries
MaxRespuesta == 2
\* how many times one list of candidates is ranked (the 2nd pass re-ranks
\* the words of the 1st result)
MaxPasadas == 2
\* how many versions of sw.js are deployed, one after the other
MaxVersiones == 2
\* how many fetch events the service worker handles
MaxSolicitudes == 1

-----------------------------------------------------------------------------
(* JavaScript values.                                                      *)

Min(a, b) == IF a < b THEN a ELSE b

\* "no error": the value of `error` while the promise has not rejected
SinError == [name |-> "", message |-> ""]

\* new Error(message) and the built-in error classes thrown by the engine
ErrorJS(name, message) == [name |-> name, message |-> message]

\* {"PALABRA": puntos}: an object with one own key
Item(w, p) == w :> p

\* {} : an object with no key at all
ItemVacio == <<>>

-----------------------------------------------------------------------------
(* procesarPalabras / ordenarYLimitarResultados                            *)

\* the keys of the literal {3: [], 4: [], 5: [], 6: [], 7: []}
Longitudes == 3..7

\* slice(0, 10)
Top == 10

\* Object.keys(item)[0] exists
TieneClave(item) == DOMAIN item # {}

\* Object.keys(item)[0]
PrimeraClave(item) == CHOOSE k \in DOMAIN item : TRUE

\* item -> { palabra: palabra, puntos: puntosAPI }
Entrada(item) ==
    [palabra |-> PrimeraClave(item), puntos |-> item[PrimeraClave(item)]]

\* palabra.length (undefined.length when the item has no key: TypeError)
\* and palabrasPorLongitud[longitud].push: TypeError when the length is no key
ItemLanza(item) ==
    \/ ~TieneClave(item)
    \/ Len(PrimeraClave(item)) \notin Longitudes

\* the for..of loop of procesarPalabras throws at the first such item
ProcesarLanza(ps) == \E i \in 1..Len(ps) : ItemLanza(ps[i])

RECURSIVE Agrupar(_, _)
\* the entries pushed to palabrasPorLongitud[L], in arrival order
Agrupar(ps, L) ==
    IF ps = <<>> THEN <<>>
    ELSE LET e == Entrada(Head(ps))
         IN  IF Len(e.palabra) = L
             THEN <<e>> \o Agrupar(Tail(ps), L)
             ELSE Agrupar(Tail(ps), L)

\* palabrasPorLongitud after the loop (only evaluated when nothing threw)
PalabrasPorLongitud(ps) == [L \in Longitudes |-> Agrupar(ps, L)]

\* the comparator (a, b) => b.puntos - a.puntos
Comparar(a, b) == b.puntos - a.puntos

RECURSIVE InsertarAntesDeIguales(_, _)
\* a sort that is not stable: x goes in front of the elements it ties with
InsertarAntesDeIguales(s, x) ==
    IF s = <<>> THEN <<x>>
    ELSE IF Comparar(x, Head(s)) <= 0
         THEN <<x>> \o s
         ELSE <<Head(s)>> \o InsertarAntesDeIguales(Tail(s), x)

RECURSIVE Insertar(_, _)
\* x goes behind every element it does not strictly precede (stable)
Insertar(s, x) ==
    IF s = <<>> THEN <<x>>
    ELSE IF Comparar(x, Head(s)) < 0
         THEN <<x>> \o s
         ELSE <<Head(s)>> \o Insertar(Tail(s), x)

RECURSIVE Ordenar(_)
\* Array.prototype.sort with Comparar: a stable sort (ECMAScript 2019)
Ordenar(s) ==
    IF s = <<>> THEN <<>>
    ELSE Insertar(Ordenar(SubSeq(s, 1, Len(s) - 1)), s[Len(s)])

\* palabras.slice(0, 10)
Top10(s) == SubSeq(s, 1, Min(Top, Len(s)))

\* the template `longitud_${longitud}`
ClaveLongitud(L) ==
    CASE L = 3 -> "longitud_3"
      [] L = 4 -> "longitud_4"
      [] L = 5 -> "longitud_5"
      [] L = 6 -> "longitud_6"
      [] L = 7 -> "longitud_7"

\* puntos_min read from the last kept word instead of the last word
EstadisticaMinDelCorte(s) ==
    [total      |-> Len(s),
     mejores    |-> Len(Top10(s)),
     puntos_max |-> s[1].puntos,
     puntos_min |-> Top10(s)[Len(Top10(s))].puntos]

\* total counted after the cut instead of before it
EstadisticaTotalTrasCorte(s) ==
    [total      |-> Len(Top10(s)),
     mejores    |-> Len(Top10(s)),
     puntos_max |-> s[1].puntos,
     puntos_min |-> s[Len(s)].puntos]

\* the object stored under estadisticas[`longitud_${longitud}`]
Estadistica(s) ==
    [total      |-> Len(s),
     mejores    |-> Len(Top10(s)),
     puntos_max |-> s[1].puntos,
     puntos_min |-> s[Len(s)].puntos]

RECURSIVE RecorrerSumaCorte(_, _)
\* totalPalabras += top10.length instead of palabras.length
RecorrerSumaCorte(ppl, L) ==
    IF L \notin DOMAIN ppl
    THEN [encontradas |-> <<>>, total |-> 0, est |-> <<>>]
    ELSE LET resto == RecorrerSumaCorte(ppl, L + 1)
             s     == Ordenar(ppl[L])
         IN  IF ppl[L] = <<>> THEN resto
             ELSE [encontradas |-> Top10(s) \o resto.encontradas,
                   total       |-> Len(Top10(s)) + resto.total,
                   est         |-> <<[clave |-> ClaveLongitud(L),
                                      valor |-> Estadistica(s)]>> \o resto.est]

RECURSIVE Recorrer(_, _)
\* the loop over Object.entries(palabrasPorLongitud), keys ascending from L:
\* [encontradas, total, estadisticas] accumulated over the lengths >= L
Recorrer(ppl, L) ==
    IF L \notin DOMAIN ppl
    THEN [encontradas |-> <<>>, total |-> 0, est |-> <<>>]
    ELSE LET resto == Recorrer(ppl, L + 1)
             s     == Ordenar(ppl[L])
         IN  IF ppl[L] = <<>> THEN resto
             ELSE [encontradas |-> Top10(s) \o resto.encontradas,
                   total       |-> Len(s) + resto.total,
                   est         |-> <<[clave |-> ClaveLongitud(L),
                                      valor |-> Estadistica(s)]>> \o resto.est]

\* estadisticas as the object it is: key -> {total, mejores, puntos_max, puntos_min}
Estadisticas(est) ==
    [k \in {est[i].clave : i \in 1..Len(est)} |->
        (CHOOSE e \in {est[i] : i \in 1..Len(est)} : e.clave = k).valor]

\* the concatenation of the lengths left as it is
SinOrdenGlobal(s) == s

RECURSIVE OrdenarAlReves(_)
\* a sort that is not stable: equal scores come out in reverse order
OrdenarAlReves(s) ==
    IF s = <<>> THEN <<>>
    ELSE Insertar(OrdenarAlReves(Tail(s)), Head(s))

\* the last sort done by such a sort
OrdenGlobalInestable(s) == OrdenarAlReves(s)

\* palabrasEncontradas.sort((a, b) => b.puntos - a.puntos)
OrdenGlobal(s) == Ordenar(s)

OrdenarYLimitarResultados(ppl) ==
    LET r == Recorrer(ppl, 3)
        palabrasEncontradas == OrdenGlobal(r.encontradas)
    IN  [success |-> TRUE,
         data |-> [palabras           |-> palabrasEncontradas,
                   total              |-> Len(palabrasEncontradas),
                   total_antes_filtro |-> r.total,
                   estadisticas       |-> Estadisticas(r.est)]]

\* the value procesarPalabras returns when it does not throw
ProcesarPalabrasValor(ps) == OrdenarYLimitarResultados(PalabrasPorLongitud(ps))

\* the value of `resultado` while the search has not resolved
SinResultado ==
    [success |-> FALSE,
     data |-> [palabras |-> <<>>, total |-> 0, total_antes_filtro |-> 0,
               estadisticas |-> <<>>]]

-----------------------------------------------------------------------------
(* validarParametros                                                       *)

\* a JavaScript number: NaN, or the value medios/2
Numero(medios) == [tipo |-> "number", nan |-> FALSE, medios |-> medios]
NaN == [tipo |-> "number", nan |-> TRUE, medios |-> 0]
\* a value that is not of type number (a numeric string, undefined)
NoNumero(tipo, medios) == [tipo |-> tipo, nan |-> FALSE, medios |-> medios]

\* ronda < n and ronda > n for an integer n: every comparison with NaN is false
MenorQue(r, n) == ~r.nan /\ r.medios < 2 * n
MayorQue(r, n) == ~r.nan /\ r.medios > 2 * n

\* the template `La fila ${i} debe tener ${longitud} elementos`
MensajeFila(i) ==
    CASE i = 0 -> "La fila 0 debe tener 3 elementos"
      [] i = 1 -> "La fila 1 debe tener 4 elementos"
      [] i = 2 -> "La fila 2 debe tener 5 elementos"
      [] i = 3 -> "La fila 3 debe tener 6 elementos"
      [] i = 4 -> "La fila 4 debe tener 7 elementos"

\* the expected length taken as i + 2
FilaMalDesplazada(p, i) == ~p.filas[i + 1].esArray \/ p.filas[i + 1].length # i + 2

\* row i (0-based, so filas[i + 1]) fails the check of the for loop
FilaMal(p, i) == ~p.filas[i + 1].esArray \/ p.filas[i + 1].length # i + 3

\* the condition of the last if: typeof ronda !== 'number' || ronda < 1 || ronda > 5
RondaMal(r) == r.tipo # "number" \/ MenorQue(r, 1) \/ MayorQue(r, 5)

\* the error validarParametros throws, SinError when it returns normally
ValidarParametros(l, p, r) ==
    IF ~l.esArray \/ Len(l.elems) # 7
    THEN ErrorJS("Error", "El array de letras disponibles debe tener exactamente 7 letras")
    ELSE IF ~p.esArray \/ Len(p.filas) # 5
    THEN ErrorJS("Error", "El array de puntos extra debe tener 5 filas (para longitudes 3-7)")
    ELSE IF \E i \in 0..(Len(p.filas) - 1) : FilaMal(p, i)
    THEN ErrorJS("Error", MensajeFila(
            CHOOSE i \in 0..(Len(p.filas) - 1) :
                FilaMal(p, i) /\ \A j \in 0..(i - 1) : ~FilaMal(p, j)))
    ELSE IF RondaMal(r)
    THEN ErrorJS("Error", "La ronda debe ser un número entre 1 y 5")
    ELSE SinError

-----------------------------------------------------------------------------
(* The arguments a caller may pass to buscarPalabras.                      *)

Fila(n) == [esArray |-> TRUE, length |-> n]
\* a string of n characters where an array is expected
FilaCadena(n) == [esArray |-> FALSE, length |-> n]

SieteLetras == <<"a", "B", "c", "D", "e", "F", "g">>

LetrasPosibles ==
    { [esArray |-> TRUE,  elems |-> SieteLetras],
      [esArray |-> TRUE,  elems |-> SubSeq(SieteLetras, 1, 6)],
      [esArray |-> TRUE,  elems |-> SieteLetras \o <<"h">>],
      [esArray |-> FALSE, elems |-> SieteLetras] }

FilasCorrectas == [i \in 1..5 |-> Fila(i + 2)]

TablasPosibles ==
    { [esArray |-> TRUE,  filas |-> FilasCorrectas],
      [esArray |-> FALSE, filas |-> FilasCorrectas],
      [esArray |-> TRUE,  filas |-> SubSeq(FilasCorrectas, 1, 4)],
      [esArray |-> TRUE,  filas |-> FilasCorrectas \o <<Fila(8)>>] }
    \cup UNION { { [esArray |-> TRUE, filas |-> [FilasCorrectas EXCEPT ![i] = f]] :
                      f \in {Fila(i + 1), Fila(i + 3), FilaCadena(i + 2)} } :
                    i \in 1..5 }

RondasPosibles ==
    { Numero(2 * n) : n \in {-1, 0, 1, 5, 6} }
    \cup { Numero(5), Numero(1), Numero(11), NaN,
           NoNumero("string", 6), NoNumero("undefined", 0) }

\* String.prototype.toUpperCase on the letters used here
ToUpperCase(c) ==
    CASE c = "a" -> "A" [] c = "c" -> "C" [] c = "e" -> "E"
      [] c = "g" -> "G" [] OTHER -> c

-----------------------------------------------------------------------------
(* Candidate lists.                                                        *)

\* the scores the word source hands out
Puntos == 1..3

\* {WORD: puntos} items: words of length 3, 3 and 4 with every score, and
\* malformed ones: words of length 2 and 8 and the object without a key
Items ==
    { Item(w, p) : w \in {"SOL", "MAR", "CASA"}, p \in Puntos }
    \cup { Item("AB", 2), Item("ABCDEFGH", 1), ItemVacio }

\* every list of at most n items
ListasHasta(n) == UNION { [1..k -> Items] : k \in 0..n }

\* the i-th word of a run of 4-letter words
PalabraLote(i) == IF i % 2 = 0 THEN "CASA" ELSE "MESA"

\* the i-th score of a run of n candidates: rising, falling, scattered
\* (distinct while n < 17) or repeating (ties)
PuntosLote(forma, n, i) ==
    CASE forma = "sube"   -> i
      [] forma = "baja"   -> n + 1 - i
      [] forma = "mezcla" -> (7 * i) % 17
      [] forma = "empata" -> i % 3

Formas == {"sube", "baja", "mezcla", "empata"}

Lote(forma, n) == [i \in 1..n |-> Item(PalabraLote(i), PuntosLote(forma, n, i))]

\* a run of up to MaxLote 4-letter candidates with at most one item of
\* Items before it and after it
Lotes ==
    { a \o Lote(forma, n) \o b :
        forma \in Formas, n \in 4..MaxLote,
        a \in ListasHasta(1), b \in { <<>>, <<Item("SOL", 2)>>, <<Item("PALABRA", 5)>> } }

\* candidates of length 1, 2, 3 and 3
ListaFueraDeRango == <<Item("A", 5), Item("AB", 7), Item("AAA", 3), Item("AAA", 9)>>

\* the candidate lists procesarPalabras is applied to
ListasRank == ListasHasta(MaxCortas) \cup Lotes \cup {ListaFueraDeRango}

-----------------------------------------------------------------------------
(* obtenerPalabrasAPI: what fetch() and response.json() may produce.       *)

MensajeGenerico == "El servidor no respondió correctamente. Inténtalo de nuevo."
MensajePorDefecto == "No se pudo obtener las palabras del servidor"

\* a response: its status and its body.  json: the body parses as JSON;
\* nulo: it parses to null; success: data.success is truthy; mensaje:
\* data.mensaje ("" when absent); data: whether data.data and
\* data.data.palabras exist; palabras: data.data.palabras
Cuerpo(json, nulo, success, mensaje, data, ps) ==
    [json |-> json, nulo |-> nulo, success |-> success, mensaje |-> mensaje,
     data |-> data, palabras |-> ps]

CuerposPosibles ==
    { Cuerpo(FALSE, FALSE, FALSE, "", "ausente", <<>>),
      Cuerpo(TRUE, TRUE, FALSE, "", "ausente", <<>>),
      Cuerpo(TRUE, FALSE, FALSE, "", "ausente", <<>>),
      Cuerpo(TRUE, FALSE, FALSE, "Letras no válidas", "ausente", <<>>),
      Cuerpo(TRUE, FALSE, FALSE, "Letras no válidas", "conPalabras", <<Item("SOL", 3)>>),
      Cuerpo(TRUE, FALSE, TRUE, "", "ausente", <<>>),
      Cuerpo(TRUE, FALSE, TRUE, "", "sinPalabras", <<>>) }
    \cup { Cuerpo(TRUE, FALSE, TRUE, "", "conPalabras", ps) :
             ps \in ListasHasta(MaxRespuesta) }

RespuestasPosibles ==
    { [status |-> st, cuerpo |-> c] : st \in {200, 500}, c \in CuerposPosibles }

SinRespuesta == [status |-> 0, cuerpo |-> Cuerpo(FALSE, FALSE, FALSE, "", "ausente", <<>>)]

\* the request: letras.join(','), JSON.stringify(puntosExtra), ronda
Peticion(letras, p, r) == [letras |-> letras, puntos_extra |-> p, ronda |-> r]

\* the rejection of the word source always carries the default message
ErrorDeCuerpoSinMensaje(c) ==
    IF ~c.json
    THEN ErrorJS("Error", MensajeGenerico)
    ELSE IF c.nulo
    THEN ErrorJS("TypeError", "Cannot read properties of null (reading 'success')")
    ELSE IF ~c.success
    THEN ErrorJS("Error", MensajePorDefecto)
    ELSE IF c.data = "ausente"
    THEN ErrorJS("TypeError", "Cannot read properties of undefined (reading 'palabras')")
    ELSE SinError

\* the error obtenerPalabrasAPI throws once the body is read, SinError when
\* it returns data.data.palabras
ErrorDeCuerpo(c) ==
    IF ~c.json
    THEN ErrorJS("Error", MensajeGenerico)
    ELSE IF c.nulo
    THEN ErrorJS("TypeError", "Cannot read properties of null (reading 'success')")
    ELSE IF ~c.success
    THEN ErrorJS("Error", IF c.mensaje # "" THEN c.mensaje ELSE MensajePorDefecto)
    ELSE IF c.data = "ausente"
    THEN ErrorJS("TypeError", "Cannot read properties of undefined (reading 'palabras')")
    ELSE SinError

-----------------------------------------------------------------------------
(* sw.js: versions, cache stores, URLs.                                    *)

\* the values VERSION takes from one deployment to the next
Versiones == 1..MaxVersiones

\* `bpwordzee-${VERSION}`
CacheName(v) == [prefijo |-> "bpwordzee-", version |-> v]

\* `bpwordzee-external-${VERSION}`
CacheNameExternal(v) == [prefijo |-> "bpwordzee-external-", version |-> v]

\* location.origin of the application
OrigenPropio == "https://bpwordzee.test"
OrigenCdn == "https://cdn.jsdelivr.net"
OrigenApi == "https://api.wordzee.test"

\* new URL(request.url): origin, hostname as its labels, pathname as its
\* segments (the text between the slashes)
Url(origin, hostname, pathname) ==
    [origin |-> origin, hostname |-> hostname, pathname |-> pathname]

UrlIndex     == Url(OrigenPropio, <<"bpwordzee", "test">>, <<"index.html">>)
UrlIndexJs   == Url(OrigenPropio, <<"bpwordzee", "test">>, <<"front", "index.js">>)
UrlOtra      == Url(OrigenPropio, <<"bpwordzee", "test">>, <<"front", "otra.png">>)
UrlApi       == Url(OrigenPropio, <<"bpwordzee", "test">>, <<"api", "bpwordzee">>)
UrlCss       == Url(OrigenCdn, <<"cdn", "jsdelivr", "net">>,
                    <<"npm", "bootstrap@5.3.8", "dist", "css", "bootstrap.min.css">>)
UrlJs        == Url(OrigenCdn, <<"cdn", "jsdelivr", "net">>,
                    <<"npm", "bootstrap@5.3.8", "dist", "js", "bootstrap.bundle.min.js">>)
UrlApiAjena  == Url(OrigenApi, <<"api", "wordzee", "test">>, <<"v1", "palabras">>)

\* PRECACHE_URLS and EXTERNAL_URLS
PRECACHE_URLS == <<UrlIndex, UrlIndexJs>>
EXTERNAL_URLS == <<UrlCss, UrlJs>>

\* the requests the page makes
UrlsPedidas == {UrlIndex, UrlOtra, UrlApi, UrlCss, UrlApiAjena}

\* url.pathname.includes('/api/'): a segment "api" with a slash behind it
PathnameIncludesApi(u) ==
    \E i \in 1..(Len(u.pathname) - 1) : u.pathname[i] = "api"

\* url.hostname.includes('api.'): a label ending in "api" with a dot behind it
HostnameIncludesApi(u) ==
    \E i \in 1..(Len(u.hostname) - 1) : u.hostname[i] \in {"api", "webapi"}

\* the condition of the first if of the fetch listener
EsApi(u) == PathnameIncludesApi(u) \/ HostnameIncludesApi(u)

\* url.origin !== location.origin
EsAjena(u) == u.origin # OrigenPropio

\* a response: its status and its body (a body that is no JSON for what is
\* no answer of the word source)
Respuesta(status, cuerpo) == [status |-> status, cuerpo |-> cuerpo]
RespuestaDeRecurso(status) ==
    Respuesta(status, Cuerpo(FALSE, FALSE, FALSE, "", "ausente", <<>>))

MensajeSinConexion ==
    "No se pudo conectar con el servidor. Verifica tu conexión a internet."

\* new Response(JSON.stringify({success: false, mensaje: ...}), {status: 200})
RespuestaSinConexion ==
    Respuesta(200, Cuerpo(TRUE, FALSE, FALSE, MensajeSinConexion, "ausente", <<>>))

\* how a fetch() settles: it rejects, or it resolves with a response
Falla == [falla |-> TRUE, respuesta |-> SinRespuesta]
Llega(resp) == [falla |-> FALSE, respuesta |-> resp]

\* what fetch(request) gives for a resource: no response, 200 or 404
RedDeRecursos == {Falla, Llega(RespuestaDeRecurso(200)), Llega(RespuestaDeRecurso(404))}

\* an entry of a store: the request, the stored response, and who stored it
\* (install or the fetch handler, of which version)
EntradaDeCache(u, status, por, v) ==
    [url |-> u, status |-> status, por |-> por, version |-> v]

\* a store: its name and its entries
Almacen(nombre, entradas) == [nombre |-> nombre, entradas |-> entradas]

\* await caches.keys()
Keys(cs) == { cs[i].nombre : i \in 1..Len(cs) }

\* the store named n (only when it exists)
AlmacenDe(cs, n) == cs[CHOOSE i \in 1..Len(cs) : cs[i].nombre = n]

\* caches.open(n): the store is created, last, when there is none
Open(cs, n) == IF n \in Keys(cs) THEN cs ELSE Append(cs, Almacen(n, {}))

\* cache.put on the store n: an entry of the same request is overwritten
Put(cs, n, e) ==
    [i \in 1..Len(cs) |->
        IF cs[i].nombre = n
        THEN Almacen(n, { x \in cs[i].entradas : x.url # e.url } \cup {e})
        ELSE cs[i]]

\* caches.delete(n)
Delete(cs, n) == SelectSeq(cs, LAMBDA a : a.nombre # n)

\* the stores holding a response for u, as positions in creation order
Aciertos(cs, u) == { i \in 1..Len(cs) : \E e \in cs[i].entradas : e.url = u }

\* caches.match(request) finds something: every store is searched
HayMatch(cs, u) == Aciertos(cs, u) # {}

\* the store caches.match(request) answers from: the first one, in creation
\* order, that holds the request
AlmacenDelMatch(cs, u) ==
    cs[CHOOSE i \in Aciertos(cs, u) : \A j \in Aciertos(cs, u) : i <= j]

\* the entry caches.match(request) answers with
Match(cs, u) == CHOOSE e \in AlmacenDelMatch(cs, u).entradas : e.url = u

\* no store at all: the name of the store of a response that came from none
SinAlmacen == [prefijo |-> "", version |-> 0]

\* a version of sw.js: estado is its life cycle (nuevo, instalando, instalado,
\* activando, activo, redundante); primario and externo are the two promises
\* of the install listener (pendiente, ok, fallo; tragado: resolved by the
\* catch); skipWaiting is the flag self.skipWaiting() sets;
\* pendientes are the caches.delete calls of activate not yet settled
SinInstalar ==
    [estado |-> "nuevo", primario |-> "pendiente", externo |-> "pendiente",
     skipWaiting |-> FALSE, pendientes |-> {}]

\* the version whose fetch listener gets the fetch events of the page
HayActiva == \E v \in Versiones : sw[v].estado = "activo"
Activa == CHOOSE v \in Versiones : sw[v].estado = "activo"

\* the page is controlled: its requests go through a fetch listener
Controlada == \E v \in Versiones : sw[v].estado \in {"activando", "activo"}

\* a fetch event being handled: the request, the version handling it, where
\* the handler stands, whether the request is the one of buscarPalabras, how
\* often the handler called fetch(), what it answered, from where (red,
\* cache, sintetica), from which store, and the state of its cache.put
Solicitud(u, v, donde, deBusqueda) ==
    [url |-> u, version |-> v, pc |-> donde, deBusqueda |-> deBusqueda,
     redes |-> 0, respuesta |-> SinRespuesta, fuente |-> "",
     almacen |-> SinAlmacen, put |-> "no"]

\* event.data of a message event: hay says whether it is truthy, type is
\* event.data.type ("" when there is none)
Mensaje(hay, type) == [hay |-> hay, type |-> type]

\* the messages a page posts: none of data, the control message, a message of
\* another type, one whose type differs in case, an object without type
MensajesPosibles ==
    { Mensaje(FALSE, ""), Mensaje(TRUE, "SKIP_WAITING"), Mensaje(TRUE, "CLEAR_CACHE"),
      Mensaje(TRUE, "skip_waiting"), Mensaje(TRUE, "") }

\* a handled message event: the version that got it, its data, and whether
\* the listener called self.skipWaiting()
Manejado(v, data, llamo) == [version |-> v, data |-> data, skipWaiting |-> llamo]

\* no message event was handled yet
SinMensaje == Manejado(0, Mensaje(FALSE, ""), FALSE)

\* the request of buscarPalabras went to a fetch listener
Interceptada == \E i \in 1..Len(solicitudes) : solicitudes[i].deBusqueda

-----------------------------------------------------------------------------
(* The search.                                                             *)

\* before buscarPalabras is called
Init ==
    /\ pc = "inicio"
    /\ letrasDisponibles = [esArray |-> TRUE, elems |-> <<>>]
    /\ puntosExtra = [esArray |-> TRUE, filas |-> <<>>]
    /\ ronda = Numero(0)
    /\ peticiones = <<>>
    /\ respuesta = SinRespuesta
    /\ palabras = <<>>
    /\ resultado = SinResultado
    /\ anterior = SinResultado
    /\ pasada = 0
    /\ error = SinError
    /\ sw = [v \in Versiones |-> SinInstalar]
    /\ almacenes = <<>>
    /\ solicitudes = <<>>
    /\ ultimoMensaje = SinMensaje

\* the search goes on whatever validarParametros finds
BuscarSinValidar(l, p, r) ==
    /\ pc = "inicio"
    /\ UNCHANGED varsSW
    /\ letrasDisponibles' = l
    /\ puntosExtra' = p
    /\ ronda' = r
    /\ pc' = "validado"
    /\ UNCHANGED <<peticiones, respuesta, palabras, resultado, anterior, pasada, error>>

\* buscarPalabras(l, p, r) up to the return of validarParametros: a throw
\* inside the async function rejects its promise
BuscarPalabras(l, p, r) ==
    /\ pc = "inicio"
    /\ UNCHANGED varsSW
    /\ letrasDisponibles' = l
    /\ puntosExtra' = p
    /\ ronda' = r
    /\ LET e == ValidarParametros(l, p, r)
       IN  IF e # SinError
           THEN pc' = "rechazado" /\ error' = e
           ELSE pc' = "validado" /\ error' = error
    /\ UNCHANGED <<peticiones, respuesta, palabras, resultado, anterior, pasada>>

\* letrasDisponibles.map(l => l.toUpperCase()) and obtenerPalabrasAPI up to
\* the call of fetch(url)
EnviarPeticion ==
    /\ pc = "validado"
    /\ ~Controlada
    /\ UNCHANGED varsSW
    /\ LET letrasNormalizadas ==
               [i \in 1..Len(letrasDisponibles.elems) |->
                   ToUpperCase(letrasDisponibles.elems[i])]
       IN  peticiones' =
               Append(peticiones, Peticion(letrasNormalizadas, puntosExtra, ronda))
    /\ pc' = "esperando"
    /\ UNCHANGED <<letrasDisponibles, puntosExtra, ronda, respuesta, palabras,
                   resultado, anterior, pasada, error>>

\* await fetch(url) rejects: the catch block rethrows what is no SyntaxError
FetchFalla ==
    /\ pc = "esperando"
    /\ ~Interceptada
    /\ UNCHANGED varsSW
    /\ pc' = "rechazado"
    /\ error' = ErrorJS("TypeError", "Failed to fetch")
    /\ UNCHANGED <<letrasDisponibles, puntosExtra, ronda, peticiones, respuesta,
                   palabras, resultado, anterior, pasada>>

\* await fetch(url) resolves with a response
FetchResuelve(resp) ==
    /\ pc = "esperando"
    /\ ~Interceptada
    /\ UNCHANGED varsSW
    /\ respuesta' = resp
    /\ pc' = "leyendo"
    /\ UNCHANGED <<letrasDisponibles, puntosExtra, ronda, peticiones, palabras,
                   resultado, anterior, pasada, error>>

\* await response.json(), the success check and return data.data.palabras
LeerCuerpo ==
    /\ pc = "leyendo"
    /\ UNCHANGED varsSW
    /\ LET e == ErrorDeCuerpo(respuesta.cuerpo)
       IN  IF e # SinError
           THEN pc' = "rechazado" /\ error' = e /\ palabras' = palabras
           ELSE /\ pc' = "procesando"
                /\ palabras' = respuesta.cuerpo.palabras
                /\ error' = error
    /\ UNCHANGED <<letrasDisponibles, puntosExtra, ronda, peticiones, respuesta,
                   resultado, anterior, pasada>>

\* the for..of over an undefined palabras throws before the first item
PalabrasIndefinidas == respuesta.cuerpo.success /\ respuesta.cuerpo.data = "sinPalabras"

\* procesarPalabras(palabrasCoincidentes) and the return of its value
ProcesarPalabras ==
    /\ pc = "procesando"
    /\ UNCHANGED varsSW
    /\ pasada' = pasada + 1
    /\ IF PalabrasIndefinidas
       THEN /\ pc' = "rechazado"
            /\ error' = ErrorJS("TypeError", "palabras is not iterable")
            /\ resultado' = resultado
       ELSE IF ProcesarLanza(palabras)
       THEN /\ pc' = "rechazado"
            /\ error' = ErrorJS("TypeError",
                                "Cannot read properties of undefined")
            /\ resultado' = resultado
       ELSE /\ pc' = "resuelto"
            /\ resultado' = ProcesarPalabrasValor(palabras)
            /\ error' = error
    /\ UNCHANGED <<letrasDisponibles, puntosExtra, ronda, peticiones, respuesta,
                   palabras, anterior>>

Next ==
    \/ \E l \in LetrasPosibles, p \in TablasPosibles, r \in RondasPosibles :
          BuscarPalabras(l, p, r)
    \/ EnviarPeticion
    \/ FetchFalla
    \/ \E resp \in RespuestasPosibles : FetchResuelve(resp)
    \/ LeerCuerpo
    \/ ProcesarPalabras

Spec == Init /\ [][Next]_vars

-----------------------------------------------------------------------------
(* procesarPalabras on its own, and on the words of its own result.        *)

\* { palabra, puntos } written back as the {WORD: puntos} item it came from
ComoItem(e) == Item(e.palabra, e.puntos)

\* the words of a result as a candidate list, in the same order
ComoCandidatos(ws) == [i \in 1..Len(ws) |-> ComoItem(ws[i])]

\* a response with the candidate list ps has been read
InitRank ==
    /\ pc = "procesando"
    /\ letrasDisponibles = [esArray |-> TRUE, elems |-> SieteLetras]
    /\ puntosExtra = [esArray |-> TRUE, filas |-> FilasCorrectas]
    /\ ronda = Numero(2)
    /\ peticiones = <<Peticion([i \in 1..7 |-> ToUpperCase(SieteLetras[i])],
                               puntosExtra, ronda)>>
    /\ palabras \in ListasRank
    /\ respuesta = [status |-> 200,
                    cuerpo |-> Cuerpo(TRUE, FALSE, TRUE, "", "conPalabras", palabras)]
    /\ resultado = SinResultado
    /\ anterior = SinResultado
    /\ pasada = 0
    /\ error = SinError
    /\ sw = [v \in Versiones |-> SinInstalar]
    /\ almacenes = <<>>
    /\ solicitudes = <<>>
    /\ ultimoMensaje = SinMensaje

\* the caller hands the words of the result back to procesarPalabras
Reprocesar ==
    /\ pc = "resuelto"
    /\ UNCHANGED varsSW
    /\ pasada < MaxPasadas
    /\ palabras' = ComoCandidatos(resultado.data.palabras)
    /\ anterior' = resultado
    /\ pc' = "procesando"
    /\ UNCHANGED <<letrasDisponibles, puntosExtra, ronda, peticiones, respuesta,
                   resultado, pasada, error>>

NextRank ==
    \/ ProcesarPalabras
    \/ Reprocesar

SpecRank == InitRank /\ [][NextRank]_vars

-----------------------------------------------------------------------------
(* sw.js: install and activate.                                            *)

\* the version v with one field of its record changed
ConEstado(v, estado) == [sw EXCEPT ![v].estado = estado]

\* cache.addAll(urls) resolves: every request was answered with status 200
AddAllOk(resultados) ==
    \A i \in DOMAIN resultados :
        ~resultados[i].falla /\ resultados[i].respuesta.status = 200

RECURSIVE PutAll(_, _, _, _)
\* the entries addAll stores, all of them or (when it rejects) none
PutAll(cs, n, urls, v) ==
    IF urls = <<>> THEN cs
    ELSE PutAll(Put(cs, n, EntradaDeCache(Head(urls), 200, "install", v)),
                n, Tail(urls), v)

\* caches.open(n).then((cache) => cache.addAll(urls))
OpenAddAll(cs, n, urls, resultados, v) ==
    IF AddAllOk(resultados)
    THEN PutAll(Open(cs, n), n, urls, v)
    ELSE Open(cs, n)

\* the install event of version v is dispatched: both promises start and
\* self.skipWaiting() is called.  A version is deployed when the one before
\* it has settled (is active or redundant)
InstalarInicio(v) ==
    /\ UNCHANGED <<varsBusqueda, ultimoMensaje>>
    /\ sw[v].estado = "nuevo"
    /\ \A w \in 1..(v - 1) : sw[w].estado \in {"activo", "redundante"}
    /\ sw' = [sw EXCEPT ![v].estado = "instalando", ![v].skipWaiting = TRUE]
    /\ UNCHANGED <<almacenes, solicitudes>>

\* the install fails although a request of the manifest was not answered
PrecachePrimarioTolerante(v, resultados) ==
    /\ UNCHANGED <<varsBusqueda, ultimoMensaje>>
    /\ sw[v].estado = "instalando"
    /\ sw[v].primario = "pendiente"
    /\ almacenes' = OpenAddAll(almacenes, CacheName(v), PRECACHE_URLS, resultados, v)
    /\ sw' = [sw EXCEPT ![v].primario = "ok"]
    /\ UNCHANGED solicitudes

\* caches.open(CACHE_NAME).then((cache) => cache.addAll(PRECACHE_URLS))
PrecachePrimario(v, resultados) ==
    /\ UNCHANGED <<varsBusqueda, ultimoMensaje>>
    /\ sw[v].estado = "instalando"
    /\ sw[v].primario = "pendiente"
    /\ almacenes' = OpenAddAll(almacenes, CacheName(v), PRECACHE_URLS, resultados, v)
    /\ sw' = [sw EXCEPT ![v].primario = IF AddAllOk(resultados) THEN "ok" ELSE "fallo"]
    /\ UNCHANGED solicitudes

\* the external precache without its catch: its failure is a failure
PrecacheExternoSinCatch(v, resultados) ==
    /\ UNCHANGED <<varsBusqueda, ultimoMensaje>>
    /\ sw[v].estado \in {"instalando", "redundante"}
    /\ sw[v].externo = "pendiente"
    /\ almacenes' =
           OpenAddAll(almacenes, CacheNameExternal(v), EXTERNAL_URLS, resultados, v)
    /\ sw' = [sw EXCEPT ![v].externo = IF AddAllOk(resultados) THEN "ok" ELSE "fallo"]
    /\ UNCHANGED solicitudes

\* caches.open(CACHE_NAME_EXTERNAL).then((cache) =>
\*     cache.addAll(EXTERNAL_URLS).catch(() => {}))
\* (the promise goes on when Promise.all has already rejected)
PrecacheExterno(v, resultados) ==
    /\ UNCHANGED <<varsBusqueda, ultimoMensaje>>
    /\ sw[v].estado \in {"instalando", "redundante"}
    /\ sw[v].externo = "pendiente"
    /\ almacenes' =
           OpenAddAll(almacenes, CacheNameExternal(v), EXTERNAL_URLS, resultados, v)
    /\ sw' = [sw EXCEPT ![v].externo = IF AddAllOk(resultados) THEN "ok" ELSE "tragado"]
    /\ UNCHANGED solicitudes

\* Promise.all settles and with it event.waitUntil: it rejects as soon as one
\* of the two promises rejects (the version becomes redundant), it resolves
\* when both have resolved (the version is installed).  The promise of the
\* external precache resolves also when its catch has swallowed a failure
InstalarFin(v) ==
    /\ UNCHANGED <<varsBusqueda, ultimoMensaje>>
    /\ sw[v].estado = "instalando"
    /\ \/ "fallo" \in {sw[v].primario, sw[v].externo}
       \/ sw[v].primario = "ok" /\ sw[v].externo \in {"ok", "tragado"}
    /\ sw' = ConEstado(v, IF "fallo" \in {sw[v].primario, sw[v].externo}
                          THEN "redundante" ELSE "instalado")
    /\ UNCHANGED <<almacenes, solicitudes>>

\* a filter that spares the stores of the precache of every version
AjenosSoloExternos(v, keys) ==
    { k \in keys : k # CacheNameExternal(v) /\ k.prefijo # "bpwordzee-" }

\* the stores activate deletes: keys.filter(key => key !== CACHE_NAME &&
\* key !== CACHE_NAME_EXTERNAL)
AjenosA(v, keys) == { k \in keys : k # CacheName(v) /\ k # CacheNameExternal(v) }

\* the activate event of the installed version v is dispatched (skipWaiting
\* was asked for, or no version is active): v replaces the active version,
\* caches.keys() resolves and caches.delete is called for every other store;
\* self.clients.claim() makes v the controller of the open pages
ActivarInicio(v) ==
    /\ UNCHANGED <<varsBusqueda, ultimoMensaje>>
    /\ sw[v].estado = "instalado"
    /\ sw[v].skipWaiting \/ ~HayActiva
    /\ sw' = [w \in Versiones |->
                IF w = v
                THEN [sw[v] EXCEPT !.estado = "activando",
                                   !.pendientes = AjenosA(v, Keys(almacenes))]
                ELSE IF sw[w].estado = "activo"
                     THEN [sw[w] EXCEPT !.estado = "redundante"]
                     ELSE sw[w]]
    /\ UNCHANGED <<almacenes, solicitudes>>

\* one caches.delete(key) of the activate listener settles
ActivarBorrar(v, n) ==
    /\ UNCHANGED <<varsBusqueda, ultimoMensaje>>
    /\ sw[v].estado = "activando"
    /\ n \in sw[v].pendientes
    /\ almacenes' = Delete(almacenes, n)
    /\ sw' = [sw EXCEPT ![v].pendientes = @ \ {n}]
    /\ UNCHANGED solicitudes

\* the Promise.all of the activate listener resolves: v is activated and
\* gets the fetch events
ActivarFin(v) ==
    /\ UNCHANGED <<varsBusqueda, ultimoMensaje>>
    /\ sw[v].estado = "activando"
    /\ sw[v].pendientes = {}
    /\ sw' = ConEstado(v, "activo")
    /\ UNCHANGED <<almacenes, solicitudes>>

-----------------------------------------------------------------------------
(* sw.js: the fetch listener.                                              *)

\* the branches taken in another order: same-origin requests first
RamaOrigenPrimero(u) ==
    IF ~EsAjena(u) /\ ~HostnameIncludesApi(u) THEN "match_local"
    ELSE IF EsApi(u) THEN "red_api"
    ELSE "match_externo"

\* the branch of the fetch listener a request takes
Rama(u) ==
    IF EsApi(u) THEN "red_api"
    ELSE IF EsAjena(u) THEN "match_externo"
    ELSE "match_local"

\* the handler i with some fields of its record changed
ConSolicitud(i, r) == [solicitudes EXCEPT ![i] = r]

\* a fetch event for u reaches the active version
Interceptar(u) ==
    /\ UNCHANGED <<varsBusqueda, ultimoMensaje>>
    /\ HayActiva
    /\ Len(solicitudes) < MaxSolicitudes
    /\ solicitudes' = Append(solicitudes, Solicitud(u, Activa, Rama(u), FALSE))
    /\ UNCHANGED <<sw, almacenes>>

\* what the API branch answers when fetch rejects: the rejection itself
ApiSinCatch(i, res) ==
    IF res.falla
    THEN [solicitudes[i] EXCEPT !.pc = "error", !.redes = @ + 1]
    ELSE [solicitudes[i] EXCEPT !.pc = "respondido", !.redes = @ + 1,
                                !.respuesta = res.respuesta, !.fuente = "red"]

\* fetch(request).then(response => response).catch(() => new Response(...))
Api(i, res) ==
    IF res.falla
    THEN [solicitudes[i] EXCEPT !.pc = "respondido", !.redes = @ + 1,
                                !.respuesta = RespuestaSinConexion,
                                !.fuente = "sintetica"]
    ELSE [solicitudes[i] EXCEPT !.pc = "respondido", !.redes = @ + 1,
                                !.respuesta = res.respuesta, !.fuente = "red"]

\* the API branch: the fetch of the handler i settles with res
RedApi(i, res) ==
    /\ UNCHANGED <<varsBusqueda, ultimoMensaje>>
    /\ solicitudes[i].pc = "red_api"
    /\ solicitudes' = ConSolicitud(i, Api(i, res))
    /\ UNCHANGED <<sw, almacenes>>

\* caches.match(request).then((cached) => ...) of either cache-first branch:
\* the cached response is returned, or fetch(request) is called
MatchEnCache(i) ==
    /\ UNCHANGED <<varsBusqueda, ultimoMensaje>>
    /\ solicitudes[i].pc \in {"match_externo", "match_local"}
    /\ solicitudes' = ConSolicitud(i,
          IF HayMatch(almacenes, solicitudes[i].url)
          THEN [solicitudes[i] EXCEPT
                   !.pc = "respondido",
                   !.respuesta = RespuestaDeRecurso(Match(almacenes, solicitudes[i].url).status),
                   !.fuente = "cache",
                   !.almacen = AlmacenDelMatch(almacenes, solicitudes[i].url).nombre]
          ELSE [solicitudes[i] EXCEPT
                   !.pc = IF @ = "match_externo" THEN "red_externo" ELSE "red_local"])
    /\ UNCHANGED <<sw, almacenes>>

\* every response is worth a cache.put
SeGuardaTodo(status) == TRUE

\* response && response.status === 200
SeGuarda(status) == status = 200

\* the cross-origin branch: fetch(request) settles; a response with status
\* 200 is cloned and its cache.put is left running, the response is returned
RedExterno(i, res) ==
    /\ UNCHANGED <<varsBusqueda, ultimoMensaje>>
    /\ solicitudes[i].pc = "red_externo"
    /\ solicitudes' = ConSolicitud(i,
          IF res.falla
          THEN [solicitudes[i] EXCEPT !.pc = "error", !.redes = @ + 1]
          ELSE [solicitudes[i] EXCEPT
                   !.pc = "respondido", !.redes = @ + 1,
                   !.respuesta = res.respuesta, !.fuente = "red",
                   !.put = IF SeGuarda(res.respuesta.status)
                           THEN "pendiente" ELSE "no"])
    /\ UNCHANGED <<sw, almacenes>>

\* caches.open(CACHE_NAME_EXTERNAL).then((cache) => cache.put(request, clone))
PutExterno(i) ==
    /\ UNCHANGED <<varsBusqueda, ultimoMensaje>>
    /\ solicitudes[i].put = "pendiente"
    /\ almacenes' =
           Put(Open(almacenes, CacheNameExternal(solicitudes[i].version)),
               CacheNameExternal(solicitudes[i].version),
               EntradaDeCache(solicitudes[i].url, solicitudes[i].respuesta.status,
                              "fetch", solicitudes[i].version))
    /\ solicitudes' = ConSolicitud(i, [solicitudes[i] EXCEPT !.put = "hecho"])
    /\ UNCHANGED sw

\* the same-origin branch treats a response like the cross-origin one does:
\* a response of status 200 is put into a store
RedLocalGuarda(i, res) ==
    /\ UNCHANGED <<varsBusqueda, ultimoMensaje>>
    /\ solicitudes[i].pc = "red_local"
    /\ solicitudes' = ConSolicitud(i,
          IF res.falla
          THEN [solicitudes[i] EXCEPT !.pc = "error", !.redes = @ + 1]
          ELSE [solicitudes[i] EXCEPT
                   !.pc = "respondido", !.redes = @ + 1,
                   !.respuesta = res.respuesta, !.fuente = "red",
                   !.put = IF SeGuarda(res.respuesta.status)
                           THEN "pendiente" ELSE "no"])
    /\ UNCHANGED <<sw, almacenes>>

\* the same-origin branch: cached || fetch(request) settles
RedLocal(i, res) ==
    /\ UNCHANGED <<varsBusqueda, ultimoMensaje>>
    /\ solicitudes[i].pc = "red_local"
    /\ solicitudes' = ConSolicitud(i,
          IF res.falla
          THEN [solicitudes[i] EXCEPT !.pc = "error", !.redes = @ + 1]
          ELSE [solicitudes[i] EXCEPT
                   !.pc = "respondido", !.redes = @ + 1,
                   !.respuesta = res.respuesta, !.fuente = "red"])
    /\ UNCHANGED <<sw, almacenes>>

NextSW ==
    \/ \E v \in Versiones : InstalarInicio(v)
    \/ \E v \in Versiones, r \in [1..Len(PRECACHE_URLS) -> RedDeRecursos] :
          PrecachePrimario(v, r)
    \/ \E v \in Versiones, r \in [1..Len(EXTERNAL_URLS) -> RedDeRecursos] :
          PrecacheExterno(v, r)
    \/ \E v \in Versiones : InstalarFin(v)
    \/ \E v \in Versiones : ActivarInicio(v)
    \/ \E v \in Versiones : \E n \in sw[v].pendientes : ActivarBorrar(v, n)
    \/ \E v \in Versiones : ActivarFin(v)
    \/ \E u \in UrlsPedidas : Interceptar(u)
    \/ \E i \in 1..Len(solicitudes), res \in RedDeRecursos : RedApi(i, res)
    \/ \E i \in 1..Len(solicitudes) : MatchEnCache(i)
    \/ \E i \in 1..Len(solicitudes), res \in RedDeRecursos : RedExterno(i, res)
    \/ \E i \in 1..Len(solicitudes) : PutExterno(i)
    \/ \E i \in 1..Len(solicitudes), res \in RedDeRecursos : RedLocal(i, res)

\* sw.js from its first deployment on
SpecSW == Init /\ [][NextSW]_vars

-----------------------------------------------------------------------------
(* sw.js: the message listener, along the life of the versions.            *)

\* the listener calls self.skipWaiting() whatever the message is
LlamaSkipWaitingSiempre(data) == TRUE

\* if (!event.data) return; if (event.data.type === 'SKIP_WAITING')
LlamaSkipWaiting(data) == data.hay /\ data.type = "SKIP_WAITING"

\* a page posts data to the version v (a worker it can reach: installing,
\* waiting, activating or active) and the message listener of v runs
RecibirMensaje(v, data) ==
    /\ UNCHANGED varsBusqueda
    /\ sw[v].estado \in {"instalando", "instalado", "activando", "activo"}
    /\ sw' = IF LlamaSkipWaiting(data)
             THEN [sw EXCEPT ![v].skipWaiting = TRUE]
             ELSE sw
    /\ ultimoMensaje' = Manejado(v, data, LlamaSkipWaiting(data))
    /\ UNCHANGED <<almacenes, solicitudes>>

NextMensaje ==
    \/ \E v \in Versiones : InstalarInicio(v)
    \/ \E v \in Versiones, r \in [1..Len(PRECACHE_URLS) -> RedDeRecursos] :
          PrecachePrimario(v, r)
    \/ \E v \in Versiones, r \in [1..Len(EXTERNAL_URLS) -> RedDeRecursos] :
          PrecacheExterno(v, r)
    \/ \E v \in Versiones : InstalarFin(v)
    \/ \E v \in Versiones : ActivarInicio(v)
    \/ \E v \in Versiones : \E n \in sw[v].pendientes : ActivarBorrar(v, n)
    \/ \E v \in Versiones : ActivarFin(v)
    \/ \E v \in Versiones, data \in MensajesPosibles : RecibirMensaje(v, data)

\* the versions of sw.js and the messages of the pages
SpecMensaje == Init /\ [][NextMensaje]_vars

-----------------------------------------------------------------------------
(* The search of a page that the active version of sw.js controls.         *)

\* the first version is installed with both manifests stored and is active;
\* buscarPalabras has not been called
InitPagina ==
    /\ pc = "inicio"
    /\ letrasDisponibles = [esArray |-> TRUE, elems |-> <<>>]
    /\ puntosExtra = [esArray |-> TRUE, filas |-> <<>>]
    /\ ronda = Numero(0)
    /\ peticiones = <<>>
    /\ respuesta = SinRespuesta
    /\ palabras = <<>>
    /\ resultado = SinResultado
    /\ anterior = SinResultado
    /\ pasada = 0
    /\ error = SinError
    /\ sw = [v \in Versiones |->
                IF v = 1
                THEN [SinInstalar EXCEPT !.estado = "activo", !.primario = "ok",
                                         !.externo = "ok", !.skipWaiting = TRUE]
                ELSE SinInstalar]
    /\ almacenes = PutAll(Open(PutAll(Open(<<>>, CacheName(1)),
                                      CacheName(1), PRECACHE_URLS, 1),
                               CacheNameExternal(1)),
                          CacheNameExternal(1), EXTERNAL_URLS, 1)
    /\ solicitudes = <<>>
    /\ ultimoMensaje = SinMensaje

\* obtenerPalabrasAPI up to the call of fetch(url), and the fetch event this
\* call raises in the active version
EnviarPeticionSW ==
    /\ pc = "validado"
    /\ HayActiva
    /\ LET letrasNormalizadas ==
               [i \in 1..Len(letrasDisponibles.elems) |->
                   ToUpperCase(letrasDisponibles.elems[i])]
       IN  peticiones' =
               Append(peticiones, Peticion(letrasNormalizadas, puntosExtra, ronda))
    /\ solicitudes' = Append(solicitudes, Solicitud(UrlApi, Activa, Rama(UrlApi), TRUE))
    /\ pc' = "esperando"
    /\ UNCHANGED <<letrasDisponibles, puntosExtra, ronda, respuesta, palabras,
                   resultado, anterior, pasada, error, sw, almacenes,
                   ultimoMensaje>>

\* the promise given to event.respondWith settles and with it the await
\* fetch(url) of obtenerPalabrasAPI: a rejection is a network error of the
\* page's fetch, which the catch block rethrows
EntregarRespuesta(i) ==
    /\ pc = "esperando"
    /\ solicitudes[i].deBusqueda
    /\ solicitudes[i].pc \in {"respondido", "error"}
    /\ IF solicitudes[i].pc = "error"
       THEN /\ pc' = "rechazado"
            /\ error' = ErrorJS("TypeError", "Failed to fetch")
            /\ respuesta' = respuesta
       ELSE /\ pc' = "leyendo"
            /\ respuesta' = solicitudes[i].respuesta
            /\ error' = error
    /\ UNCHANGED <<letrasDisponibles, puntosExtra, ronda, peticiones, palabras,
                   resultado, anterior, pasada, sw, almacenes, solicitudes,
                   ultimoMensaje>>

\* what the network gives for the request of a search
RedDeBusqueda == {Falla} \cup { Llega(r) : r \in RespuestasPosibles }

NextPagina ==
    \/ \E l \in LetrasPosibles, p \in TablasPosibles, r \in RondasPosibles :
          BuscarPalabras(l, p, r)
    \/ EnviarPeticionSW
    \/ \E i \in 1..Len(solicitudes), res \in RedDeBusqueda : RedApi(i, res)
    \/ \E i \in 1..Len(solicitudes) : EntregarRespuesta(i)
    \/ LeerCuerpo
    \/ ProcesarPalabras

SpecPagina == InitPagina /\ [][NextPagina]_vars

-----------------------------------------------------------------------------
(* What the claims speak of, stated without the operators of the code.     *)

\* the word and the score of a candidate {WORD: puntos}
PalabraDe(item) == CHOOSE w \in DOMAIN item : TRUE
PuntosDe(item) == item[PalabraDe(item)]

\* a candidate whose word has a length in 3..7
EnRango(item) == DOMAIN item # {} /\ Len(PalabraDe(item)) >= 3 /\ Len(PalabraDe(item)) <= 7

\* the candidates of length L, in arrival order
CandidatosDe(ps, L) ==
    SelectSeq(ps, LAMBDA it : DOMAIN it # {} /\ Len(PalabraDe(it)) = L)

\* the words of length L of a result, in output order
SalidaDe(res, L) == SelectSeq(res.data.palabras, LAMBDA e : Len(e.palabra) = L)

\* where the k-th candidate of c stands in the stable descending sort of c:
\* behind every higher score and behind the earlier candidates of its score
Posicion(c, k) ==
    1 + Cardinality({ j \in 1..Len(c) : PuntosDe(c[j]) > PuntosDe(c[k]) })
      + Cardinality({ j \in 1..(k - 1) : PuntosDe(c[j]) = PuntosDe(c[k]) })

\* the scores of the candidates c
PuntosEn(c) == { PuntosDe(c[j]) : j \in 1..Len(c) }

\* procesarPalabras has returned for the list in `palabras`
Clasificado == pc = "resuelto"

\* procesarPalabras has been applied to the list in `palabras` and has thrown
FalloAlClasificar == pc = "rechazado" /\ pasada >= 1 /\ ~PalabrasIndefinidas

-----------------------------------------------------------------------------
(* C1 .. C7: procesarPalabras / ordenarYLimitarResultados (under SpecRank) *)

\* C1: procesarPalabras never fails on a candidate whose word length is
\* outside 3..7: it returns the result of the candidates of length 3..7 alone
\* (for ListaFueraDeRango: words [AAA:9, AAA:3], longitud_3 = {2, 2, 9, 3}).
C1_FueraDeRangoSeDescarta ==
    /\ ~FalloAlClasificar
    /\ (Clasificado /\ palabras = ListaFueraDeRango) =>
          /\ resultado.data.palabras =
                <<[palabra |-> "AAA", puntos |-> 9], [palabra |-> "AAA", puntos |-> 3]>>
          /\ resultado.data.estadisticas =
                ("longitud_3" :> [total |-> 2, mejores |-> 2,
                                  puntos_max |-> 9, puntos_min |-> 3])
    /\ Clasificado =>
          \A L \in 3..7 :
              Len(SalidaDe(resultado, L)) = Min(10, Len(CandidatosDe(palabras, L)))

\* C2: for every length L in 3..7 the words of length L of the result are the
\* first min(10, n) entries of the stable descending sort of the n candidates
\* of length L: candidate k stands at Posicion(c, k) when that is <= 10.
C2_Top10EstablePorLongitud ==
    Clasificado =>
        \A L \in 3..7 :
            LET c == CandidatosDe(palabras, L)
                o == SalidaDe(resultado, L)
            IN  /\ Len(o) = Min(10, Len(c))
                /\ \A k \in 1..Len(c) :
                       Posicion(c, k) <= 10 =>
                           /\ o[Posicion(c, k)].palabra = PalabraDe(c[k])
                           /\ o[Posicion(c, k)].puntos = PuntosDe(c[k])

\* a length with more than 10 candidates where two candidates with different
\* words tie and the cut falls between equal scores
C2_Witness ==
    /\ Clasificado
    /\ \E L \in 3..7 :
          LET c == CandidatosDe(palabras, L)
          IN  /\ Len(c) > 10
              /\ \E j, k \in 1..Len(c) :
                    /\ j < k
                    /\ PuntosDe(c[j]) = PuntosDe(c[k])
                    /\ PalabraDe(c[j]) # PalabraDe(c[k])
                    /\ Posicion(c, j) <= 10
                    /\ Posicion(c, k) > 10

\* C3: the words of a result are in non-increasing score order over the whole
\* sequence, all lengths together.
C3_OrdenGlobalDescendente ==
    Clasificado =>
        \A i \in 1..(Len(resultado.data.palabras) - 1) :
            resultado.data.palabras[i].puntos >= resultado.data.palabras[i + 1].puntos

\* a result where the best score of one length is lower than the lowest kept
\* score of a greater length, so that the concatenation 3 -> 7 is not sorted
C3_Witness ==
    /\ Clasificado
    /\ \E L, M \in 3..7 :
          /\ L < M
          /\ SalidaDe(resultado, L) # <<>>
          /\ SalidaDe(resultado, M) # <<>>
          /\ \A i \in 1..Len(SalidaDe(resultado, L)),
                j \in 1..Len(SalidaDe(resultado, M)) :
                SalidaDe(resultado, L)[i].puntos < SalidaDe(resultado, M)[j].puntos

\* the candidates c all have different scores
PuntosDistintos(c) == Cardinality(PuntosEn(c)) = Len(c)

\* the scores of c with fewer than n scores of c above them
MayoresPuntos(c, n) ==
    { p \in PuntosEn(c) : Cardinality({ q \in PuntosEn(c) : q > p }) < n }

\* the n-th highest of the distinct scores of c
EnesimoMayor(c, n) ==
    CHOOSE p \in PuntosEn(c) : Cardinality({ q \in PuntosEn(c) : q > p }) = n - 1

\* the lowest score of c
MenorPunto(c) == CHOOSE p \in PuntosEn(c) : \A q \in PuntosEn(c) : p <= q

\* what C4 says of a length with more than 10 candidates of distinct scores,
\* but for puntos_min
C4_DiezMejores(L) ==
    LET c == CandidatosDe(palabras, L)
        o == SalidaDe(resultado, L)
        e == resultado.data.estadisticas[ClaveLongitud(L)]
    IN  /\ Len(o) = 10
        /\ { o[i].puntos : i \in 1..Len(o) } = MayoresPuntos(c, 10)
        /\ e.total = Len(c)
        /\ e.mejores = 10
        /\ e.puntos_max = EnesimoMayor(c, 1)

\* a length with more than 10 candidates, all of different scores, is ranked
C4_Caso(L) ==
    /\ Clasificado
    /\ Len(CandidatosDe(palabras, L)) > 10
    /\ PuntosDistintos(CandidatosDe(palabras, L))

\* C4 as claimed: with more than 10 candidates of distinct scores in a length,
\* the 10 highest are kept, total = bucket size, mejores = 10, puntos_max = the
\* highest score and puntos_min = the 10th highest score.
C4_MinEsDecimoMayor ==
    \A L \in 3..7 :
        C4_Caso(L) =>
            /\ C4_DiezMejores(L)
            /\ resultado.data.estadisticas[ClaveLongitud(L)].puntos_min =
                   EnesimoMayor(CandidatosDe(palabras, L), 10)

\* C4 as amended: ... and puntos_min = the lowest score of the whole bucket
\* (of the candidates before the cut), which no kept word has.
C4_MinEsMenorDelTotal ==
    \A L \in 3..7 :
        C4_Caso(L) =>
            /\ C4_DiezMejores(L)
            /\ resultado.data.estadisticas[ClaveLongitud(L)].puntos_min =
                   MenorPunto(CandidatosDe(palabras, L))
            /\ \A i \in 1..Len(SalidaDe(resultado, L)) :
                   SalidaDe(resultado, L)[i].puntos >
                       resultado.data.estadisticas[ClaveLongitud(L)].puntos_min

\* 15 candidates of length 4 with distinct scores have been ranked
C4_Witness ==
    /\ C4_Caso(4)
    /\ Len(CandidatosDe(palabras, 4)) = 15

\* C5: estadisticas has the entry longitud_L exactly for the lengths L in 3..7
\* with a candidate; total = candidates of length L, mejores = words of length
\* L kept (<= 10), puntos_max / puntos_min = score of the first / last entry
\* of the sorted bucket before the cut.
C5_Estadisticas ==
    Clasificado =>
        /\ DOMAIN resultado.data.estadisticas =
               { ClaveLongitud(L) : L \in { M \in 3..7 : CandidatosDe(palabras, M) # <<>> } }
        /\ \A L \in 3..7 :
               LET c == CandidatosDe(palabras, L)
                   e == resultado.data.estadisticas[ClaveLongitud(L)]
               IN  c # <<>> =>
                       /\ e.total = Len(c)
                       /\ e.mejores = Len(SalidaDe(resultado, L))
                       /\ e.mejores <= 10
                       /\ \A k \in 1..Len(c) :
                              /\ Posicion(c, k) = 1 => e.puntos_max = PuntosDe(c[k])
                              /\ Posicion(c, k) = Len(c) => e.puntos_min = PuntosDe(c[k])

\* a result with a length without candidates (no entry) and a length with
\* more than 10 candidates whose last score is not among the kept ones
C5_Witness ==
    /\ Clasificado
    /\ \E L, M \in 3..7 :
          /\ CandidatosDe(palabras, L) = <<>>
          /\ Len(CandidatosDe(palabras, M)) > 10
          /\ \A i \in 1..Len(SalidaDe(resultado, M)) :
                SalidaDe(resultado, M)[i].puntos >
                    resultado.data.estadisticas[ClaveLongitud(M)].puntos_min

RECURSIVE SumaDe(_, _, _)
\* the sum of the field `campo` ("total" or "mejores") over the entries of est
\* with a key in claves
SumaDe(est, campo, claves) ==
    IF claves = {} THEN 0
    ELSE LET k == CHOOSE x \in claves : TRUE
         IN  (IF campo = "total" THEN est[k].total ELSE est[k].mejores)
                 + SumaDe(est, campo, claves \ {k})

\* C6: total = length of the words = sum of mejores; total_antes_filtro = sum
\* of total; total <= total_antes_filtro; the empty candidate list gives
\* success with no words, total 0, total_antes_filtro 0 and no statistics.
C6_Totales ==
    LET d == resultado.data
    IN  /\ Clasificado =>
              /\ d.total = Len(d.palabras)
              /\ d.total = SumaDe(d.estadisticas, "mejores", DOMAIN d.estadisticas)
              /\ d.total_antes_filtro =
                     SumaDe(d.estadisticas, "total", DOMAIN d.estadisticas)
              /\ d.total <= d.total_antes_filtro
        /\ (palabras = <<>> /\ (Clasificado \/ FalloAlClasificar)) =>
              /\ Clasificado
              /\ resultado.success
              /\ d.palabras = <<>>
              /\ d.total = 0
              /\ d.total_antes_filtro = 0
              /\ DOMAIN d.estadisticas = {}

\* a result over two lengths that lost words to the cut
C6_Witness ==
    /\ Clasificado
    /\ Cardinality(DOMAIN resultado.data.estadisticas) >= 2
    /\ resultado.data.total < resultado.data.total_antes_filtro

\* C7: ranking the words of a result again, in the same order, returns the
\* same words in the same order, total unchanged and total_antes_filtro equal
\* to total.
C7_Idempotente ==
    (Clasificado /\ pasada >= 2) =>
        /\ resultado.data.palabras = anterior.data.palabras
        /\ resultado.data.total = anterior.data.total
        /\ resultado.data.total_antes_filtro = anterior.data.total

\* a re-ranked result that had lost words to the cut and holds two words of
\* different lengths with the same score
C7_Witness ==
    /\ Clasificado
    /\ pasada = 2
    /\ anterior.data.total < anterior.data.total_antes_filtro
    /\ \E i, j \in 1..Len(resultado.data.palabras) :
          /\ resultado.data.palabras[i].puntos = resultado.data.palabras[j].puntos
          /\ Len(resultado.data.palabras[i].palabra) #
                 Len(resultado.data.palabras[j].palabra)

-----------------------------------------------------------------------------
(* C8 .. C10: validarParametros and buscarPalabras (under Spec)            *)

\* buscarPalabras has been called
Llamado == pc # "inicio"

\* the search was rejected before fetch() was called
RechazadoPorValidacion == pc = "rechazado" /\ peticiones = <<>>

\* exactly 7 letters
SonSieteLetras(l) == l.esArray /\ Len(l.elems) = 7

\* exactly 5 rows
SonCincoFilas(p) == p.esArray /\ Len(p.filas) = 5

\* every row i (0-based) has exactly i + 3 elements
FilasDeLongitud(p) ==
    \A i \in 0..(Len(p.filas) - 1) :
        p.filas[i + 1].esArray /\ p.filas[i + 1].length = i + 3

\* an integer in [1, 5]
RondaEnteraEnRango(r) ==
    /\ r.tipo = "number"
    /\ ~r.nan
    /\ r.medios % 2 = 0
    /\ r.medios >= 2
    /\ r.medios <= 10

\* C8: validation succeeds for 7 letters, 5 rows with row i of i + 3 elements
\* and a round in 1..5; it fails whenever there are not exactly 7 letters, not
\* exactly 5 rows, or a row i without exactly i + 3 elements.
C8_ValidacionDeForma ==
    Llamado =>
        /\ ( /\ SonSieteLetras(letrasDisponibles)
             /\ SonCincoFilas(puntosExtra)
             /\ FilasDeLongitud(puntosExtra)
             /\ RondaEnteraEnRango(ronda) ) => ~RechazadoPorValidacion
        /\ ( \/ ~SonSieteLetras(letrasDisponibles)
             \/ ~SonCincoFilas(puntosExtra)
             \/ ~FilasDeLongitud(puntosExtra) ) =>
               (RechazadoPorValidacion /\ error.name = "Error")

\* a search with 7 letters, a 3/4/5/6/7 table and round 5 has passed validation
C8_Witness ==
    /\ pc = "validado"
    /\ SonSieteLetras(letrasDisponibles)
    /\ SonCincoFilas(puntosExtra)
    /\ FilasDeLongitud(puntosExtra)
    /\ ronda = Numero(10)

\* C9: validation fails for every round that is not an integer in [1, 5],
\* fractions inside the range and not-a-number included.
C9_RondaNoEnteraRechazada ==
    (Llamado /\ ~RondaEnteraEnRango(ronda)) => RechazadoPorValidacion

\* C10: no request is sent for an input that validation rejects, none is sent
\* before validation has passed, and a search sends at most one request.
C10_ValidarAntesDePedir ==
    /\ Len(peticiones) <= 1
    /\ pc \in {"inicio", "validado"} => peticiones = <<>>
    /\ (Llamado /\ ValidarParametros(letrasDisponibles, puntosExtra, ronda) # SinError) =>
          (pc = "rechazado" /\ peticiones = <<>>)


\* a search that validation rejected has ended without a request
C10_Witness ==
    /\ pc = "rechazado"
    /\ ValidarParametros(letrasDisponibles, puntosExtra, ronda) # SinError
    /\ peticiones = <<>>

-----------------------------------------------------------------------------
(* C11 .. C19: sw.js (under SpecSW; C11 under SpecPagina)                  *)

\* the fetch events handled so far
Manejadores == 1..Len(solicitudes)

\* the URLs of the API category, of the cross-origin category and of the
\* same-origin category, listed one by one
UrlsDeApi == {UrlApi, UrlApiAjena}
UrlsExternas == {UrlCss, UrlJs}
UrlsLocales == {UrlIndex, UrlIndexJs, UrlOtra}

\* the entries of every store
EntradasGuardadas == UNION { almacenes[k].entradas : k \in 1..Len(almacenes) }

\* the store named n holds a response for u
Guarda(n, u) ==
    \E k \in 1..Len(almacenes) :
        almacenes[k].nombre = n /\ \E e \in almacenes[k].entradas : e.url = u

\* the handler of the request of buscarPalabras
DeLaBusqueda == { i \in Manejadores : solicitudes[i].deBusqueda }

\* C11: the handler of an API request never ends in a failure: when its fetch
\* fails it answers with a synthesized response of status 200 whose body is
\* JSON saying success false with a non-empty mensaje; and a search whose
\* request got that answer is rejected with an Error carrying that mensaje,
\* never with the TypeError of a failed fetch.
C11_SinConexionEsRechazoDeLaFuente ==
    /\ \A i \in Manejadores :
          solicitudes[i].url \in UrlsDeApi =>
             /\ solicitudes[i].pc # "error"
             /\ solicitudes[i].fuente = "sintetica" =>
                   /\ solicitudes[i].pc = "respondido"
                   /\ solicitudes[i].respuesta.status = 200
                   /\ solicitudes[i].respuesta.cuerpo.json
                   /\ ~solicitudes[i].respuesta.cuerpo.nulo
                   /\ ~solicitudes[i].respuesta.cuerpo.success
                   /\ solicitudes[i].respuesta.cuerpo.mensaje # ""
    /\ error # ErrorJS("TypeError", "Failed to fetch")
    /\ \A i \in DeLaBusqueda :
          (solicitudes[i].fuente = "sintetica" /\ pc \notin {"esperando", "leyendo"}) =>
             /\ pc = "rechazado"
             /\ error = ErrorJS("Error", solicitudes[i].respuesta.cuerpo.mensaje)

\* a search has ended rejected with the mensaje of the synthesized response
C11_Witness ==
    \E i \in DeLaBusqueda :
        /\ solicitudes[i].fuente = "sintetica"
        /\ respuesta = solicitudes[i].respuesta
        /\ pc = "rechazado"
        /\ error.name = "Error"
        /\ error.message =
              "No se pudo conectar con el servidor. Verifica tu conexión a internet."

\* C12: a request of the API category (also a cross-origin one) is handled by
\* the API policy alone: its handler is never in a cache-first branch, its
\* answer comes after exactly one network fetch and from no store, it starts
\* no cache.put, and no store ever holds a response for an API URL.
C12_ApiSoloRed ==
    /\ \A i \in Manejadores :
          solicitudes[i].url \in UrlsDeApi =>
             /\ solicitudes[i].pc \in {"red_api", "respondido", "error"}
             /\ solicitudes[i].fuente # "cache"
             /\ solicitudes[i].almacen = SinAlmacen
             /\ solicitudes[i].put = "no"
             /\ solicitudes[i].pc = "respondido" => solicitudes[i].redes = 1
             /\ solicitudes[i].pc = "red_api" => solicitudes[i].redes = 0
    /\ \A e \in EntradasGuardadas : e.url \notin UrlsDeApi

\* a cross-origin API request was answered from the network while the stores
\* of the active version hold their precached responses
C12_Witness ==
    \E i \in Manejadores :
        /\ solicitudes[i].url = UrlApiAjena
        /\ solicitudes[i].pc = "respondido"
        /\ solicitudes[i].fuente = "red"
        /\ Guarda(CacheName(solicitudes[i].version), UrlIndex)
        /\ Guarda(CacheNameExternal(solicitudes[i].version), UrlCss)

\* C13: once the handler of a cross-origin request that is no API request has
\* answered with a network response of status 200, the store external@version
\* of its version holds a copy of that response (the copy is stored before the
\* response is returned), the handler having fetched exactly once.
C13_GuardadoAntesDeResponder ==
    \A i \in Manejadores :
        ( /\ solicitudes[i].url \in UrlsExternas
          /\ solicitudes[i].pc = "respondido"
          /\ solicitudes[i].fuente = "red"
          /\ solicitudes[i].respuesta.status = 200 ) =>
            /\ solicitudes[i].redes = 1
            /\ Guarda(CacheNameExternal(solicitudes[i].version), solicitudes[i].url)

\* C14: the fetch listener stores no response whose status is not 200: every
\* entry a handler wrote came from a response of status 200, and a handler that
\* answered with a network response of another status has returned that
\* response and has started no cache.put.
C14_SoloSeGuarda200 ==
    /\ \A e \in EntradasGuardadas : e.por = "fetch" => e.status = 200
    /\ \A i \in Manejadores :
          ( /\ solicitudes[i].pc = "respondido"
            /\ solicitudes[i].fuente = "red"
            /\ solicitudes[i].respuesta.status # 200 ) =>
              solicitudes[i].put = "no"

\* a cross-origin request was answered with the 404 of the network and no
\* store holds anything for it
C14_Witness ==
    \E i \in Manejadores :
        /\ solicitudes[i].url = UrlCss
        /\ solicitudes[i].pc = "respondido"
        /\ solicitudes[i].fuente = "red"
        /\ solicitudes[i].respuesta.status = 404
        /\ \A e \in EntradasGuardadas : e.url # UrlCss

\* what install puts into primary@v
EntradasDeInstall(v) ==
    { EntradaDeCache(PRECACHE_URLS[k], 200, "install", v) : k \in 1..Len(PRECACHE_URLS) }

\* every primary store is empty or holds exactly what its install put there
PrimarioComoInstall ==
    \A k \in 1..Len(almacenes) :
        almacenes[k].nombre.prefijo = "bpwordzee-" =>
           almacenes[k].entradas \in {{}, EntradasDeInstall(almacenes[k].nombre.version)}

\* the step of the handler i, when its request is a same-origin one that is no
\* API request: no store changes and no cache.put is started; looking up the
\* cache answers with the cached response when some store holds one, without a
\* network fetch, and goes to the network otherwise; the network result is
\* what the handler answers, after one fetch
PasoLocal(i) ==
    LET s == solicitudes[i]
        t == solicitudes'[i]
    IN  (s.url \in UrlsLocales /\ t # s) =>
          /\ almacenes' = almacenes
          /\ t.put = "no"
          /\ s.pc \in {"match_local", "red_local"}
          /\ s.pc = "match_local" =>
                IF \E e \in EntradasGuardadas : e.url = s.url
                THEN t.pc = "respondido" /\ t.fuente = "cache" /\ t.redes = 0
                ELSE t.pc = "red_local" /\ t.redes = 0
          /\ s.pc = "red_local" =>
                /\ t.redes = 1
                /\ t.pc \in {"respondido", "error"}
                /\ t.pc = "respondido" => t.fuente = "red"

\* C15: handling a same-origin request that is no API request is cache-first
\* and writes to no store: every step of such a handler leaves all stores as
\* they are, serves the cached response when there is one and the network
\* result otherwise, and every primary store holds exactly what install put
\* into it.
C15_MismoOrigenNoEscribe ==
    [][ /\ \A i \in Manejadores : PasoLocal(i)
        /\ PrimarioComoInstall' ]_vars

\* a same-origin request outside the manifest was answered from the network
\* with status 200, and no store holds it
C15_Witness ==
    \E i \in Manejadores :
        /\ solicitudes[i].url = UrlOtra
        /\ solicitudes[i].pc = "respondido"
        /\ solicitudes[i].fuente = "red"
        /\ solicitudes[i].respuesta.status = 200
        /\ \A e \in EntradasGuardadas : e.url # UrlOtra
        /\ Guarda(CacheName(solicitudes[i].version), UrlIndex)
        /\ PrimarioComoInstall

\* the store the policy of version v names for the request u
AlmacenDeLaPolitica(v, u) ==
    IF u \in UrlsLocales THEN CacheName(v) ELSE CacheNameExternal(v)

\* C16: a response the fetch listener of version v served from cache was read
\* from the store its policy names: external@v for a cross-origin request,
\* primary@v for a same-origin one.
C16_AciertoDelAlmacenPropio ==
    \A i \in Manejadores :
        solicitudes[i].fuente = "cache" =>
           solicitudes[i].almacen =
               AlmacenDeLaPolitica(solicitudes[i].version, solicitudes[i].url)

\* the stores that are neither primary@v nor external@v
OtrosAlmacenes(v) ==
    { n \in Keys(almacenes) :
        ~(n.version = v /\ n.prefijo \in {"bpwordzee-", "bpwordzee-external-"}) }

\* the stores a step removes
Desaparecen == Keys(almacenes) \ Keys(almacenes')

\* C17: the activation of version v asks for the deletion of every store that
\* exists when it starts and is neither primary@v nor external@v; each of its
\* deletions removes such a store and nothing else, the stores that stay keep
\* their contents, primary@v and external@v among them; and the activation
\* completes only when all deletions have settled.
C17_ActivarBorraLosAjenos ==
    [][ \A v \in Versiones :
          /\ (sw[v].estado = "instalado" /\ sw'[v].estado = "activando") =>
                /\ sw'[v].pendientes = OtrosAlmacenes(v)
                /\ almacenes' = almacenes
          /\ (sw[v].estado = "activando" /\ sw'[v] # sw[v]) =>
                /\ Desaparecen \subseteq OtrosAlmacenes(v)
                /\ Desaparecen = sw[v].pendientes \ sw'[v].pendientes
                /\ \A n \in Keys(almacenes) \ Desaparecen :
                      /\ n \in Keys(almacenes')
                      /\ AlmacenDe(almacenes', n) = AlmacenDe(almacenes, n)
          /\ (sw[v].estado = "activando" /\ sw'[v].estado = "activo") =>
                sw[v].pendientes = {}
      ]_vars

\* version 2 is active after version 1 was: the stores of version 1 are gone,
\* those of version 2 are there with what install put into them
C17_Witness ==
    /\ sw[1].estado = "redundante" /\ sw[1].primario = "ok"
    /\ sw[2].estado = "activo"
    /\ Keys(almacenes) = {CacheName(2), CacheNameExternal(2)}
    /\ AlmacenDe(almacenes, CacheName(2)).entradas = EntradasDeInstall(2)
    /\ Guarda(CacheNameExternal(2), UrlCss)
    /\ Guarda(CacheNameExternal(2), UrlJs)

\* C18: a version whose install has succeeded (it is installed, activating or
\* active) has primary@version holding a response for every URL of the
\* same-origin manifest; a version whose primary precache failed is never
\* installed, activating or active.
C18_InstaladaConManifiesto ==
    \A v \in Versiones :
        /\ sw[v].estado \in {"instalado", "activando", "activo"} =>
              /\ sw[v].primario = "ok"
              /\ \A k \in 1..Len(PRECACHE_URLS) : Guarda(CacheName(v), PRECACHE_URLS[k])
        /\ sw[v].primario = "fallo" => sw[v].estado \in {"instalando", "redundante"}

\* the install of version 1 failed on its same-origin manifest and left
\* primary@1 empty; version 2 is active with its manifest stored
C18_Witness ==
    /\ sw[1].primario = "fallo" /\ sw[1].estado = "redundante"
    /\ sw[2].estado = "activo"
    /\ AlmacenDe(almacenes, CacheName(2)).entradas = EntradasDeInstall(2)

\* C19: a failure of the cross-origin precache never makes install fail: an
\* install whose same-origin manifest was fetched and stored ends installed,
\* whatever the cross-origin precache did, and the promise of the cross-origin
\* precache never rejects.
C19_FalloExternoNoImpide ==
    [][ \A v \in Versiones :
          /\ sw'[v].externo # "fallo"
          /\ ( /\ sw[v].estado = "instalando"
               /\ sw'[v].estado # "instalando"
               /\ sw[v].primario = "ok" ) => sw'[v].estado = "instalado"
      ]_vars

\* a version is active although none of the cross-origin manifest was stored
C19_Witness ==
    \E v \in Versiones :
        /\ sw[v].estado = "activo"
        /\ sw[v].externo = "tragado"
        /\ AlmacenDe(almacenes, CacheNameExternal(v)).entradas = {}
        /\ AlmacenDe(almacenes, CacheName(v)).entradas = EntradasDeInstall(v)

-----------------------------------------------------------------------------
(* C20: obtenerPalabrasAPI on a malformed body (under Spec)                *)

\* obtenerPalabrasAPI has read the body of the response
CuerpoLeido == respuesta # SinRespuesta /\ pc \in {"rechazado", "procesando", "resuelto"}

\* the body is not the expected envelope: it is no JSON, it is null, or it
\* says success without data.palabras
Malformado(c) == ~c.json \/ c.nulo \/ (c.success /\ c.data # "conPalabras")

\* C20: whenever the body of the response is not the expected envelope
\* (no JSON, or JSON without the expected structure), the search is rejected
\* with the generic message and with no other text.
C20_MalformadoDaMensajeGenerico ==
    (CuerpoLeido /\ Malformado(respuesta.cuerpo)) =>
        (pc = "rechazado" /\ error = ErrorJS("Error", MensajeGenerico))

-----------------------------------------------------------------------------
(* C21: obtenerPalabrasAPI on a body that says success false (under Spec)  *)

\* the body is an object whose success is false or absent
SinExito(c) == c.json /\ ~c.nulo /\ ~c.success

\* C21: whenever the body read is an object whose success is false or absent,
\* whatever the status of the response, the search is rejected with an Error
\* carrying the mensaje of the body when it has a (non-empty) one and the
\* fixed default message otherwise; no words are taken from the body and
\* procesarPalabras is not run.
C21_RechazoConMensaje ==
    (CuerpoLeido /\ SinExito(respuesta.cuerpo)) =>
        /\ pc = "rechazado"
        /\ error.name = "Error"
        /\ error.message =
              IF respuesta.cuerpo.mensaje # ""
              THEN respuesta.cuerpo.mensaje
              ELSE "No se pudo obtener las palabras del servidor"
        /\ palabras = <<>>
        /\ pasada = 0
        /\ resultado = SinResultado

\* a response of status 500 whose body says success false with a mensaje and
\* with words has been read: the search is rejected with that mensaje
C21_Witness ==
    /\ CuerpoLeido
    /\ respuesta.status = 500
    /\ SinExito(respuesta.cuerpo)
    /\ respuesta.cuerpo.mensaje = "Letras no válidas"
    /\ respuesta.cuerpo.palabras # <<>>
    /\ pc = "rechazado"
    /\ error.message = "Letras no válidas"

-----------------------------------------------------------------------------
(* C22: the message listener of sw.js (under SpecMensaje)                  *)

\* the control message {type: "SKIP_WAITING"}
MensajeDeControl == [hay |-> TRUE, type |-> "SKIP_WAITING"]

\* a waiting version that got the control message last
EsperaConControl(v) ==
    /\ sw[v].estado = "instalado"
    /\ ultimoMensaje.version = v
    /\ ultimoMensaje.data = MensajeDeControl

\* C22: the control message {type: "SKIP_WAITING"} makes the version that gets
\* it ask for skipWaiting, so that a waiting version which got it can start
\* its activation at once; a message without data or of any other type asks
\* for nothing and changes nothing of the worker, and no message touches the
\* stores or the requests in flight.
C22_SoloElControlPideActivar ==
    /\ [](\A v \in Versiones : EsperaConControl(v) => ENABLED ActivarInicio(v))
    /\ [][ ultimoMensaje' # ultimoMensaje =>
             /\ almacenes' = almacenes
             /\ solicitudes' = solicitudes
             /\ IF ultimoMensaje'.data = MensajeDeControl
                THEN /\ ultimoMensaje'.skipWaiting
                     /\ sw'[ultimoMensaje'.version].skipWaiting
                     /\ \A w \in Versiones :
                           [sw'[w] EXCEPT !.skipWaiting = TRUE] =
                           [sw[w] EXCEPT !.skipWaiting = TRUE]
                ELSE /\ ~ultimoMensaje'.skipWaiting
                     /\ sw' = sw
       ]_vars

\* version 2 is waiting behind the active version 1 and has got the control
\* message
C22_Witness ==
    /\ sw[1].estado = "activo"
    /\ EsperaConControl(2)
    /\ ultimoMensaje.skipWaiting
    /\ sw[2].skipWaiting

-----------------------------------------------------------------------------
(* C23: the sweep of activate and the requests in flight (under SpecSW)    *)

\* version v is active, the installs of the versions before it succeeded
\* (so their precaches settled before v was deployed) and no newer version
\* has been deployed
ActivaSinSucesora(v) ==
    /\ sw[v].estado = "activo"
    /\ \A w \in Versiones : w < v => sw[w].primario = "ok"
    /\ \A w \in Versiones : w > v => sw[w].estado = "nuevo"

\* C23: once the activation of version v has completed and until a newer
\* version is deployed, the stores that exist are among primary@v and
\* external@v, whatever the handlers of the superseded version still in
\* flight do.
C23_TrasElBarridoSoloLosPropios ==
    \A v \in Versiones :
        ActivaSinSucesora(v) =>
            Keys(almacenes) \subseteq {CacheName(v), CacheNameExternal(v)}

====
